---- MODULE Spec2Model ----
(***************************************************************************)
(* SuggestLibrariesTool.execute: validate the options, list the indexed    *)
(* libraries, search every library concurrently, reduce each search to one *)
(* scored entry, then filter, sort and truncate.                           *)
(*                                                                         *)
(* Strings are sequences of characters.  Scores are integers (the code     *)
(* only compares and subtracts them); a score is <<v>> when it is the      *)
(* number v and <<>> when it is null.  A maxLibraries number is counted in *)
(* halves, so that 2.5 is a value of the model.                            *)
(***************************************************************************)
EXTENDS Integers, Sequences, FiniteSets, TLC

VARIABLES
  pc,            \* position of execute: idle, listing, searching, returned, thrown
  options,       \* the options bag execute was called with
  allLibraries,  \* names returned by listLibraries, in listing order
  listCalls,     \* number of listLibraries calls issued
  searchCalls,   \* searchStore calls issued, in issue order
  scored,        \* listing position -> value its search promise settled with
  rejected,      \* listing positions whose searchStore call failed
  last,          \* the most recent searchStore settlement
  libraries,     \* the libraries of the result execute returned
  error          \* the error execute rejected with, "none" otherwise

vars == <<pc, options, allLibraries, listCalls, searchCalls, scored,
          rejected, last, libraries, error>>

-----------------------------------------------------------------------------
\* Bounds of the model.
MaxLibsDeep == 1    \* libraries listed in Spec
MaxLibsWide == 6    \* libraries listed in WideSpec
MaxLibsLive == 3    \* libraries listed in LiveSpec
MaxRecords == 2     \* records one search returns in Spec
MaxBlank == 2       \* length of a whitespace-only query

\* Constants of the program.
DefaultMaxLibraries == 5
MinMaxLibraries == 1
MaxMaxLibraries == 20
SearchLimit == 3
SnippetLen == 200

Min(a, b) == IF a <= b THEN a ELSE b

-----------------------------------------------------------------------------
\* Values.

Null == <<>>

Text(c, n) == [i \in 1..n |-> c]

LibraryNames ==
  <<"react", "vue", "angular", "svelte", "solid", "lit", "ember", "preact">>

ShortContent == <<"R", "e", "a", "c", "t">>
LongContent == Text("A", SnippetLen + 1)

Scores == {Null, <<0>>, <<1>>, <<2>>}

MatchRecords == [content : {ShortContent, LongContent}, score : Scores]

SearchResults == UNION {[1..n -> MatchRecords] : n \in 0..MaxRecords}

BriefResults ==
  {<<[content |-> ShortContent, score |-> s]>> : s \in {<<1>>, <<2>>}}

\* A maxLibraries argument: undefined, a number (in halves), NaN, or a
\* value that is not of type number.
Undefined == [kind |-> "undefined", halves |-> 0]
NaN == [kind |-> "NaN", halves |-> 0]
NotANumber == [kind |-> "string", halves |-> 0]
Num(h) == [kind |-> "number", halves |-> h]

MaxLibrariesInputs ==
  {Undefined, NaN, NotANumber}
    \cup {Num(h) : h \in {-2, 0, 1, 2, 4, 5, 40, 41, 42}}

Whitespace == {" ", "\t"}

BlankStrings == UNION {[1..n -> Whitespace] : n \in 0..MaxBlank}

QueryInputs ==
  {[kind |-> "undefined", chars |-> <<>>]}
    \cup {[kind |-> "string", chars |-> s] : s \in BlankStrings}
    \cup {[kind |-> "string", chars |-> <<" ", "h", "o", "o", "k", "s", " ">>]}

-----------------------------------------------------------------------------
\* Input validation.

\* The two ValidationErrors, named by their messages.
QueryRequired == "ValidationError: Query is required and must be a non-empty string."
MaxLibrariesOutOfRange == "ValidationError: maxLibraries must be a number between 1 and 20."
ValidationErrors == {QueryRequired, MaxLibrariesOutOfRange}

RECURSIVE TrimStart(_)
TrimStart(s) ==
  IF s # <<>> /\ Head(s) \in Whitespace THEN TrimStart(Tail(s)) ELSE s

RECURSIVE TrimEnd(_)
TrimEnd(s) ==
  IF s # <<>> /\ s[Len(s)] \in Whitespace
    THEN TrimEnd(SubSeq(s, 1, Len(s) - 1))
    ELSE s

\* The query compared as it is, untrimmed.
TrimNothing(s) == s

Trim(s) == TrimEnd(TrimStart(s))

QueryInvalid(query) ==
  \/ query.kind = "undefined"
  \/ query.chars = <<>>
  \/ query.kind # "string"
  \/ Trim(query.chars) = <<>>

\* const { query, maxLibraries = 5 } = options
MaxLibrariesOf(opts) ==
  IF opts.maxLibraries.kind = "undefined"
    THEN Num(2 * DefaultMaxLibraries)
    ELSE opts.maxLibraries

\* x < n and x > n on a number; every comparison with NaN is false.
LessThan(m, n) == m.kind = "number" /\ m.halves < 2 * n
GreaterThan(m, n) == m.kind = "number" /\ m.halves > 2 * n

MaxLibrariesInvalid(m) ==
  /\ m.kind # "undefined"
  /\ \/ m.kind \notin {"number", "NaN"}
     \/ LessThan(m, MinMaxLibraries)
     \/ GreaterThan(m, MaxMaxLibraries)

-----------------------------------------------------------------------------
\* The reduction of one library's search to a scored entry.

\* The first score taken for the greatest one.
FirstOf(s) == s[1]

RECURSIVE MaxOf(_)
MaxOf(s) ==
  IF Len(s) = 1 THEN s[1]
  ELSE LET m == MaxOf(Tail(s)) IN IF s[1] >= m THEN s[1] ELSE m

\* (r.score ?? 0)
ScoreOrZero(r) == IF r.score = Null THEN 0 ELSE r.score[1]

\* The reduce with >= in place of >: the last of the best records wins.
RECURSIVE TopResultLast(_, _)
TopResultLast(best, rest) ==
  IF rest = <<>> THEN best
  ELSE TopResultLast(IF ScoreOrZero(Head(rest)) >= ScoreOrZero(best)
                       THEN Head(rest) ELSE best,
                     Tail(rest))

\* results.reduce((best, current) => current > best ? current : best)
RECURSIVE TopResult(_, _)
TopResult(best, rest) ==
  IF rest = <<>> THEN best
  ELSE TopResult(IF ScoreOrZero(Head(rest)) > ScoreOrZero(best)
                   THEN Head(rest) ELSE best,
                 Tail(rest))

Substring(s, from, to) == SubSeq(s, from + 1, Min(to, Len(s)))

CaughtEntry(lib) == [name |-> lib, score |-> 0]

ScoreLibrary(lib, results) ==
  IF Len(results) = 0 THEN [name |-> lib, score |-> 0]
  ELSE
    LET present == SelectSeq([i \in 1..Len(results) |-> results[i].score],
                             LAMBDA s : s # Null)
        scores == [i \in 1..Len(present) |-> present[i][1]]
        maxScore == IF Len(scores) > 0 THEN MaxOf(scores) ELSE 0
    IN IF maxScore = 0 THEN [name |-> lib, score |-> 0]
       ELSE [name |-> lib,
             score |-> maxScore,
             matchedContent |->
               Substring(TopResult(Head(results), Tail(results)).content,
                         0, SnippetLen)]

-----------------------------------------------------------------------------
\* Filter, sort and truncate.

\* The filter with >= in place of >.
FilterNonNegative(entries) == SelectSeq(entries, LAMBDA lib : lib.score >= 0)

Filter(entries) == SelectSeq(entries, LAMBDA lib : lib.score > 0)

\* The comparator with its operands exchanged.
CompareAscending(a, b) == a.score - b.score

\* (a, b) => b.score - a.score
Compare(a, b) == b.score - a.score

\* An unstable sort: an entry goes before the entries it compares equal to.
RECURSIVE InsertSortedUnstable(_, _)
InsertSortedUnstable(x, sorted) ==
  IF sorted = <<>> THEN <<x>>
  ELSE IF (x.score - Head(sorted).score) < 0
    THEN <<Head(sorted)>> \o InsertSortedUnstable(x, Tail(sorted))
    ELSE <<x>> \o sorted

\* Array.prototype.sort is stable: an entry goes after every entry that
\* does not compare greater than it.
RECURSIVE InsertSorted(_, _)
InsertSorted(x, sorted) ==
  IF sorted = <<>> THEN <<x>>
  ELSE IF Compare(Head(sorted), x) <= 0
    THEN <<Head(sorted)>> \o InsertSorted(x, Tail(sorted))
    ELSE <<x>> \o sorted

RECURSIVE Sort(_)
Sort(entries) ==
  IF entries = <<>> THEN <<>>
  ELSE InsertSorted(entries[Len(entries)],
                    Sort(SubSeq(entries, 1, Len(entries) - 1)))

\* ToIntegerOrInfinity of slice's end argument: NaN is 0, a fraction is
\* truncated.
SliceEnd(m) == IF m.kind = "number" /\ m.halves > 0 THEN m.halves \div 2 ELSE 0

Slice(entries, m) == SubSeq(entries, 1, Min(SliceEnd(m), Len(entries)))

Rank(entries, m) == Slice(Sort(Filter(entries)), m)

-----------------------------------------------------------------------------
\* execute.

NoSettlement == [index |-> 0, threw |-> FALSE, results |-> <<>>]

Init ==
  /\ pc = "idle"
  /\ options = [query |-> [kind |-> "undefined", chars |-> <<>>],
                maxLibraries |-> Undefined]
  /\ allLibraries = <<>>
  /\ listCalls = 0
  /\ searchCalls = <<>>
  /\ scored = <<>>
  /\ rejected = {}
  /\ last = NoSettlement
  /\ libraries = <<>>
  /\ error = "none"

\* execute is called: the options are validated and, when they are valid,
\* listLibraries is called.
Execute(query, maxLibraries) ==
  /\ pc = "idle"
  /\ options' = [query |-> query, maxLibraries |-> maxLibraries]
  /\ IF QueryInvalid(query)
       THEN /\ pc' = "thrown"
            /\ error' = QueryRequired
            /\ listCalls' = listCalls
       ELSE IF MaxLibrariesInvalid(MaxLibrariesOf(options'))
         THEN /\ pc' = "thrown"
              /\ error' = MaxLibrariesOutOfRange
              /\ listCalls' = listCalls
         ELSE /\ pc' = "listing"
              /\ error' = error
              /\ listCalls' = listCalls + 1
  /\ UNCHANGED <<allLibraries, searchCalls, scored, rejected, last, libraries>>

SearchCall(lib) ==
  [library |-> lib, version |-> "undefined", query |-> options.query,
   limit |-> SearchLimit]

\* listLibraries resolves with n libraries: an empty listing returns at
\* once, otherwise one search per library is issued.
ListLibrariesResolves(n) ==
  /\ pc = "listing"
  /\ allLibraries' = SubSeq(LibraryNames, 1, n)
  /\ IF n = 0
       THEN /\ pc' = "returned"
            /\ libraries' = <<>>
            /\ searchCalls' = searchCalls
       ELSE /\ pc' = "searching"
            /\ libraries' = libraries
            /\ searchCalls' =
                 searchCalls \o [i \in 1..n |-> SearchCall(LibraryNames[i])]
  /\ UNCHANGED <<options, listCalls, scored, rejected, last, error>>

\* listLibraries rejects: nothing catches the error.
ListLibrariesRejects ==
  /\ pc = "listing"
  /\ pc' = "thrown"
  /\ error' = "ListLibrariesError"
  /\ UNCHANGED <<options, allLibraries, listCalls, searchCalls, scored,
                 rejected, last, libraries>>

Pending == (1..Len(allLibraries)) \ DOMAIN scored

Settle(i, entry) == scored' = [j \in DOMAIN scored \cup {i} |->
                                 IF j = i THEN entry ELSE scored[j]]

\* The search of library i resolves with results.
SearchStoreResolves(i, results) ==
  /\ pc = "searching"
  /\ i \in Pending
  /\ Settle(i, ScoreLibrary(allLibraries[i], results))
  /\ last' = [index |-> i, threw |-> FALSE, results |-> results]
  /\ UNCHANGED <<pc, options, allLibraries, listCalls, searchCalls, rejected,
                 libraries, error>>

\* The search of library i rejects with no try/catch around it: Promise.all
\* rejects and so does execute.
SearchStoreRejectsUncaught(i) ==
  /\ pc = "searching"
  /\ i \in Pending
  /\ rejected' = rejected \cup {i}
  /\ pc' = "thrown"
  /\ error' = "SearchError"
  /\ last' = [index |-> i, threw |-> TRUE, results |-> <<>>]
  /\ UNCHANGED <<options, allLibraries, listCalls, searchCalls, scored,
                 libraries>>

\* The search of library i rejects: the error is caught.
SearchStoreRejects(i) ==
  /\ pc = "searching"
  /\ i \in Pending
  /\ Settle(i, CaughtEntry(allLibraries[i]))
  /\ rejected' = rejected \cup {i}
  /\ last' = [index |-> i, threw |-> TRUE, results |-> <<>>]
  /\ UNCHANGED <<pc, options, allLibraries, listCalls, searchCalls,
                 libraries, error>>

\* Promise.all resolves once every search promise has, with the values in
\* listing order.
AllSettled == Pending = {}

ScoredLibraries == [i \in 1..Len(allLibraries) |-> scored[i]]

\* Promise.race in place of Promise.all: the first settlement resumes
\* execute, which ranks what has settled.
PromiseRaceResolves ==
  /\ pc = "searching"
  /\ DOMAIN scored # {}
  /\ libraries' =
       Rank([i \in 1..Len(allLibraries) |->
               IF i \in DOMAIN scored
                 THEN scored[i]
                 ELSE [name |-> allLibraries[i], score |-> 0]],
            MaxLibrariesOf(options))
  /\ pc' = "returned"
  /\ UNCHANGED <<options, allLibraries, listCalls, searchCalls, scored,
                 rejected, last, error>>

PromiseAllResolves ==
  /\ pc = "searching"
  /\ AllSettled
  /\ libraries' = Rank(ScoredLibraries, MaxLibrariesOf(options))
  /\ pc' = "returned"
  /\ UNCHANGED <<options, allLibraries, listCalls, searchCalls, scored,
                 rejected, last, error>>

Begin == \E q \in QueryInputs, m \in MaxLibrariesInputs : Execute(q, m)

ListDeep == \E n \in 0..MaxLibsDeep : ListLibrariesResolves(n)

ListLive == \E n \in 0..MaxLibsLive : ListLibrariesResolves(n)

ListWide == \E n \in 0..MaxLibsWide : ListLibrariesResolves(n)

ResolveSome ==
  \E i \in 1..Len(allLibraries), r \in SearchResults : SearchStoreResolves(i, r)

ResolveBrief ==
  \E i \in 1..Len(allLibraries), r \in BriefResults : SearchStoreResolves(i, r)

RejectSome == \E i \in 1..Len(allLibraries) : SearchStoreRejects(i)

Next ==
  \/ Begin
  \/ ListDeep
  \/ ListLibrariesRejects
  \/ ResolveSome
  \/ RejectSome
  \/ PromiseAllResolves

\* Few libraries, every search of up to MaxRecords records.
Spec == Init /\ [][Next]_vars

\* Many libraries, every search returns one record with a positive score,
\* or fails.
NextWide ==
  \/ Begin
  \/ ListWide
  \/ ListLibrariesRejects
  \/ ResolveBrief
  \/ RejectSome
  \/ PromiseAllResolves

WideSpec == Init /\ [][NextWide]_vars

\* Some libraries with one-record searches.  The event loop runs
\* the continuation of a settled Promise.all; nothing makes a search of the
\* collaborator settle.
NextLive ==
  \/ Begin
  \/ ListLive
  \/ ListLibrariesRejects
  \/ ResolveBrief
  \/ RejectSome
  \/ PromiseAllResolves

LiveSpec == Init /\ [][NextLive]_vars /\ WF_vars(PromiseAllResolves)

-----------------------------------------------------------------------------
\* Properties.

Range(f) == {f[i] : i \in DOMAIN f}

ResultNames == {libraries[k].name : k \in 1..Len(libraries)}

\* Listing position of a library name.
Pos(lib) == CHOOSE i \in 1..Len(allLibraries) : allLibraries[i] = lib

Positive == {i \in DOMAIN scored : scored[i].score > 0}

\* A query that is the empty string or consists of whitespace only.
QueryBlank(query) ==
  query.kind = "string" /\ \A i \in 1..Len(query.chars) : query.chars[i] \in Whitespace

\* A maxLibraries that is an integer in [1, 20].
IntegerInRange(m) ==
  /\ m.kind = "number"
  /\ m.halves % 2 = 0
  /\ m.halves \div 2 \in MinMaxLibraries..MaxMaxLibraries

\* A call the interface allows: a query with content, and maxLibraries
\* omitted or an integer in [1, 20].
ValidCall ==
  /\ ~QueryBlank(options.query)
  /\ options.query.kind = "string"
  /\ options.maxLibraries = Undefined \/ IntegerInRange(options.maxLibraries)

\* C1 as stated: the only error the caller of execute ever observes is one
\* of the two validation errors.
C1_OnlyValidationErrors == pc = "thrown" => error \in ValidationErrors

\* C1, amended: the caller observes a validation error, the failure of
\* listLibraries (passed on unchanged, before any search is issued), or a
\* result; the failure of a search never reaches the caller.
C1_CallerOutcomes ==
  /\ pc = "thrown" => error \in ValidationErrors \cup {"ListLibrariesError"}
  /\ error = "ListLibrariesError" => pc = "thrown" /\ searchCalls = <<>>
  /\ error \in ValidationErrors => pc = "thrown"
  /\ pc = "returned" => error = "none"
  /\ rejected # {} => pc \in {"searching", "returned"} /\ error = "none"

C1_Witness ==
  /\ pc = "returned"
  /\ Len(allLibraries) >= 2
  /\ rejected = 1..Len(allLibraries)
  /\ libraries = <<>>

\* C2: a library whose search failed has score 0 and is absent from the
\* result, the result is the one obtained had each failed search returned
\* no matches, and a failed search never makes execute throw.
C2_FailedSearchIsolated ==
  /\ rejected # {} => pc # "thrown"
  /\ \A i \in rejected : scored[i].score = 0
  /\ pc = "returned" =>
       /\ \A i \in rejected : allLibraries[i] \notin ResultNames
       /\ libraries =
            Rank([i \in 1..Len(allLibraries) |->
                    IF i \in rejected
                      THEN ScoreLibrary(allLibraries[i], <<>>)
                      ELSE scored[i]],
                 MaxLibrariesOf(options))

C2_Witness ==
  /\ pc = "returned"
  /\ rejected # {}
  /\ libraries # <<>>
  /\ \E i \in rejected : \E j \in Positive : i < j

RequestedMax ==
  IF options.maxLibraries = Undefined THEN 5 ELSE options.maxLibraries.halves \div 2

DistinctPositiveScores ==
  \A i, j \in Positive : i # j => scored[i].score # scored[j].score

\* C3: the result of a valid call is sorted by descending score, strictly
\* when the positive scores are distinct, and its length is the smaller of
\* the number of libraries with a positive score and maxLibraries (5 when
\* omitted).
C3_SortedAndTruncated ==
  (pc = "returned" /\ ValidCall) =>
    /\ \A k \in 1..(Len(libraries) - 1) :
         /\ libraries[k].score >= libraries[k + 1].score
         /\ DistinctPositiveScores => libraries[k].score > libraries[k + 1].score
    /\ Len(libraries) = Min(Cardinality(Positive), RequestedMax)
    /\ allLibraries = <<>> => libraries = <<>>

C3_Witness ==
  /\ pc = "returned"
  /\ options.maxLibraries = Undefined
  /\ Cardinality(Positive) = 6
  /\ Len(libraries) = 5
  /\ libraries[1].score > libraries[5].score

NoPositiveScore(results) ==
  \A j \in 1..Len(results) : results[j].score \in {Null, <<0>>}

\* C4: every entry of the result has a positive score; a library whose
\* search failed, returned nothing, or returned only null or zero scores is
\* not in the result.
C4_PositiveScoresOnly ==
  pc = "returned" =>
    /\ \A k \in 1..Len(libraries) : libraries[k].score > 0
    /\ \A i \in rejected : allLibraries[i] \notin ResultNames
    /\ (last.index # 0 /\ NoPositiveScore(last.results)) =>
         allLibraries[last.index] \notin ResultNames

C4_Witness ==
  /\ pc = "returned"
  /\ last.index # 0
  /\ ~last.threw
  /\ Len(last.results) = 2
  /\ last.results[1].score = Null
  /\ last.results[2].score = <<0>>
  /\ allLibraries[last.index] \notin ResultNames

\* C5: a call with an empty or whitespace-only query throws a validation
\* error whatever maxLibraries is, and a validation error is thrown before
\* any call of listLibraries or searchStore.
C5_BlankQueryRejectedFirst ==
  /\ (pc # "idle" /\ QueryBlank(options.query)) =>
       pc = "thrown" /\ error \in ValidationErrors
  /\ error \in ValidationErrors => listCalls = 0 /\ searchCalls = <<>>

C5_Witness ==
  /\ pc = "thrown"
  /\ options.query.chars = <<" ", "\t">>
  /\ options.maxLibraries = Num(4)

\* C6 as stated: with a valid query, a provided maxLibraries is accepted
\* exactly when it is an integer in [1, 20], so that the bound of the
\* truncation is an integer in [1, 20].
C6_IntegerInRangeOnly ==
  (/\ pc # "idle"
   /\ ~QueryInvalid(options.query)
   /\ options.maxLibraries # Undefined) =>
    /\ error \notin ValidationErrors <=> IntegerInRange(options.maxLibraries)
    /\ error \notin ValidationErrors =>
         SliceEnd(MaxLibrariesOf(options)) \in MinMaxLibraries..MaxMaxLibraries

PresentScores(results) ==
  {results[j].score[1] : j \in {k \in 1..Len(results) : results[k].score # Null}}

MaxPresent(results) ==
  IF PresentScores(results) = {} THEN 0
  ELSE CHOOSE m \in PresentScores(results) : \A x \in PresentScores(results) : x <= m

FirstBest(results) ==
  CHOOSE j \in 1..Len(results) :
    /\ results[j].score = <<MaxPresent(results)>>
    /\ \A k \in 1..(j - 1) : results[k].score # <<MaxPresent(results)>>

First200(s) == [i \in 1..(IF Len(s) < 200 THEN Len(s) ELSE 200) |-> s[i]]

\* C7: the matchedContent of a library is the content of the first record
\* with the library's maximum score, cut to its first 200 characters; the
\* matchedContent of every entry of the result has at most 200 characters.
C7_SnippetOfFirstBest ==
  /\ (last.index # 0 /\ ~last.threw /\ MaxPresent(last.results) > 0) =>
       /\ "matchedContent" \in DOMAIN scored[last.index]
       /\ scored[last.index].matchedContent =
            First200(last.results[FirstBest(last.results)].content)
  /\ pc = "returned" =>
       \A k \in 1..Len(libraries) :
         /\ libraries[k] = scored[Pos(libraries[k].name)]
         /\ "matchedContent" \in DOMAIN libraries[k]
         /\ Len(libraries[k].matchedContent) <= 200

C7_Witness ==
  /\ pc = "returned"
  /\ last.index # 0
  /\ Len(last.results) = 2
  /\ last.results[1].score = last.results[2].score
  /\ last.results[1].content = LongContent
  /\ last.results[2].content = ShortContent
  /\ allLibraries[last.index] \in ResultNames
  /\ Len(scored[last.index].matchedContent) = 200

Precedes(a, b) ==
  \/ a.score > b.score
  \/ a.score = b.score /\ Pos(a.name) < Pos(b.name)

\* C8: whatever the order in which the searches settle, the result is the
\* libraries with a positive score, by descending score and, for equal
\* scores, in listing order, cut to the first maxLibraries.
C8_OrderIndependentResult ==
  pc = "returned" =>
    /\ \A k \in 1..Len(libraries) :
         /\ libraries[k].name \in Range(allLibraries)
         /\ libraries[k] = scored[Pos(libraries[k].name)]
         /\ Pos(libraries[k].name) \in Positive
    /\ \A j, k \in 1..Len(libraries) : j < k => Precedes(libraries[j], libraries[k])
    /\ \A i \in Positive :
         allLibraries[i] \notin ResultNames =>
           \A k \in 1..Len(libraries) : Precedes(libraries[k], scored[i])
    /\ Len(libraries) =
         Min(Cardinality(Positive), SliceEnd(MaxLibrariesOf(options)))

C8_Witness ==
  /\ pc = "returned"
  /\ Len(libraries) >= 2
  /\ libraries[1].score = libraries[2].score
  /\ last.index = Pos(libraries[1].name)
  /\ last.index < Len(allLibraries)

SearchesOf(lib) == {k \in 1..Len(searchCalls) : searchCalls[k].library = lib}

C9_SearchesIssuedAndJoined ==
  /\ (pc \in {"searching", "returned"} /\ allLibraries # <<>>) =>
       /\ Len(searchCalls) = Len(allLibraries)
       /\ \A i \in 1..Len(allLibraries) :
            Cardinality(SearchesOf(allLibraries[i])) = 1
  /\ (pc = "returned") => (DOMAIN scored = 1..Len(allLibraries))

\* C9: once the listing is not empty, exactly one search has been issued
\* for each listed library; execute returns only when every search has
\* settled, and once every search has settled it does return.
C9_OneSearchEachThenJoin ==
  /\ []C9_SearchesIssuedAndJoined
  /\ (pc = "searching" /\ AllSettled) ~> (pc = "returned")

C9_Witness ==
  /\ pc = "returned"
  /\ Len(allLibraries) >= 2
  /\ rejected # {}
  /\ rejected # DOMAIN scored
  /\ Len(searchCalls) = Len(allLibraries)

\* C10: the score of a library whose search succeeded is the maximum of the
\* non-null scores of the returned records, and 0 when there is no record
\* or no non-null score.
C10_ScoreIsMaxPresent ==
  (last.index # 0 /\ ~last.threw) =>
    /\ scored[last.index].score = MaxPresent(last.results)
    /\ (last.results = <<>> \/ PresentScores(last.results) = {}) =>
         scored[last.index].score = 0

C10_Witness ==
  /\ last.index # 0
  /\ Len(last.results) = 2
  /\ last.results[1].score = <<1>>
  /\ last.results[2].score = <<2>>
  /\ scored[last.index].score = 2
====
